---- MODULE Spec2Model ----
(***************************************************************************)
(* Chord ring of Lab4_DHT/chord_node.py: identifier ring, finger tables,   *)
(* join (init_finger_table + update_others), the lookup loop               *)
(* find_predecessor / find_successor / closest_preceding_finger, and the   *)
(* key store reached through populate / query.                             *)
(*                                                                         *)
(* A node is named by its ring identifier `number`.  The code carries a    *)
(* NodeRef {'number', 'port'}: the port selects the process an RPC is sent *)
(* to and the number is what the interval tests compare.  The model takes  *)
(* the identifiers of live nodes to be pairwise distinct, so number and    *)
(* port name the same node and one integer stands for both.                *)
(*                                                                         *)
(* Operations are driven one at a time: a join runs to completion as one   *)
(* step (every RPC it triggers included); a find_predecessor call is       *)
(* unfolded iteration by iteration so that its hops can be observed.       *)
(***************************************************************************)
EXTENDS Integers, Sequences, FiniteSets, TLC

\* ---- bounds of the model ------------------------------------------------
\* width of an identifier in bits (chord_node.py uses 7; scaled down)
M == 3
\* most nodes that ever join the ring
MaxNodes == 3
\* most nodes that ever join the ring in the wide specifications
WideNodes == 4
\* most nodes that ever join the ring while keys are stored and queried
KVNodes == 2
\* most populate requests issued in one behaviour
MaxPuts == 1
\* largest divisor of a ModRange built on its own
MaxDivisor == 5
\* populate requests followed where a key is stored twice
TwicePuts == 2

NODES == 2 ^ M

\* the port the first node of a ring listens on
TEST_BASE == 43500

\* self.predecessor = None / FingerEntry.successor = None
None == -1

Ids == 0 .. (NODES - 1)

VARIABLES
    joined,        \* numbers of the nodes whose join() has returned
    finger_table,  \* finger_table[n][k] = [start, next_start, successor]
    predecessor,   \* predecessor[n]
    keys,          \* keys[n] = set of <<data_id, row>> held in n's dictionary
    rpc_count,     \* RPCs sent to another node by the most recent join()
    hung,          \* a join() never returned (a loop of it did not end)
    fp,            \* the find_successor call being unfolded, if any
    reply,         \* the response to the most recent populate / query
    nputs,         \* populate requests issued so far
    down,          \* nodes whose process was stopped: connecting to them fails
    handler,       \* the RPC handler thread that ran most recently, if any
    threads,       \* handler threads inside update_finger_table, by slot
    calc,          \* the ModRange / FingerEntry object under evaluation, if any
    joining        \* the node between init_finger_table and update_others, if any

vars == <<joined, finger_table, predecessor, keys, rpc_count, hung, fp, reply, nputs,
          down, handler, threads, calc, joining>>

\* the variables of the RPC layer
rpcvars == <<down, handler, threads>>

\* the variables of the interval objects and of a join followed line by line
stepvars == <<calc, joining>>

\* ---- ModRange -------------------------------------------------------------
\* start and stop are taken as given, not reduced modulo the divisor
ModRange_unreduced(start, stop, divisor) ==
    [start |-> start, stop |-> stop, divisor |-> divisor,
     intervals |-> IF start < stop THEN << <<start, stop>> >>
                   ELSE IF stop = 0 THEN << <<start, divisor>> >>
                   ELSE << <<start, divisor>>, <<0, stop>> >>]

\* equal endpoints denote the empty interval
ModRange_empty_if_equal(start, stop, divisor) ==
    [start |-> start % divisor, stop |-> stop % divisor, divisor |-> divisor,
     intervals |-> IF start % divisor = stop % divisor THEN <<>>
                   ELSE IF start % divisor < stop % divisor
                   THEN << <<start % divisor, stop % divisor>> >>
                   ELSE IF stop % divisor = 0 THEN << <<start % divisor, divisor>> >>
                   ELSE << <<start % divisor, divisor>>, <<0, stop % divisor>> >>]

\* ModRange.__init__: the one or two plain ranges [lo, hi) the interval is made of
ModRange(start, stop, divisor) ==
    LET s == start % divisor
        t == stop % divisor
    IN  [start |-> s, stop |-> t, divisor |-> divisor,
         intervals |-> IF s < t THEN << <<s, t>> >>
                       ELSE IF t = 0 THEN << <<s, divisor>> >>
                       ELSE << <<s, divisor>>, <<0, t>> >>]

\* ModRange.__contains__
Contains(mr, id) ==
    \E j \in 1 .. Len(mr.intervals) :
        mr.intervals[j][1] <= id /\ id < mr.intervals[j][2]

\* ModRange.__len__
ModRange_len(mr) ==
    IF Len(mr.intervals) = 1 THEN mr.intervals[1][2] - mr.intervals[1][1]
    ELSE (mr.intervals[1][2] - mr.intervals[1][1])
         + (mr.intervals[2][2] - mr.intervals[2][1])

\* len(self.mr.intervals[i]) and self.mr.intervals[i][j], i and j counted from 0
range_len(mr, i) == mr.intervals[i + 1][2] - mr.intervals[i + 1][1]
range_at(mr, i, j) == mr.intervals[i + 1][1] + j

\* the iterator never leaves its first range
iter_stops_after_first(mr, i) == TRUE

\* ModRangeIter.__next__, the test `self.i == len(self.mr.intervals) - 1`
iter_at_last_range(mr, i) == i = Len(mr.intervals) - 1

\* ---- FingerEntry ----------------------------------------------------------
\* FingerEntry.__init__ (the interval is ModRange(start, next_start, NODES))
FingerEntry(n, k) ==
    [start      |-> (n + 2 ^ (k - 1)) % NODES,
     next_start |-> IF k < M THEN (n + 2 ^ k) % NODES ELSE n,
     successor  |-> None]

\* the interval of a finger ends one position late
FingerContains_closed(fe, id) ==
    Contains(ModRange(fe.start, fe.next_start + 1, NODES), id)

\* FingerEntry.__contains__: id in self.interval
FingerContains(fe, id) == Contains(ModRange(fe.start, fe.next_start, NODES), id)

\* ChordNode.initialize_empty_finger_table: entries 1..M of node n
initialize_empty_finger_table(n) == [k \in 1 .. M |-> FingerEntry(n, k)]

\* ---- the ring state threaded through an operation -------------------------
\* net = [ft, pred, rpcs, ok, down, lost, log]: finger tables, predecessors,
\* RPCs sent to another node so far, whether every loop so far has ended, the
\* stopped nodes, whether a call_rpc of the operation has failed (the thread
\* is then leaving through exit()), and the events of the operation in order:
\* <<"rpc", caller, target>> for a connection opened, <<"set", node, i>> for
\* a finger written by update_finger_table, <<"put", node, key>> for a key
\* written by put_key.

\* ChordNode.successor (property getter)
successor(net, n) == net.ft[n][1].successor

\* call_rpc: a call whose target is the caller's own port is dispatched
\* locally; any other opens a connection to the peer
Remote(caller, target) == IF caller = target THEN 0 ELSE 1

\* the events a call from caller to target adds to the log
Sent(caller, target) ==
    IF caller = target THEN <<>> ELSE << <<"rpc", caller, target>> >>

\* a failed connection is taken for a response
Unreachable_ignored(net, caller, target) == FALSE

\* call_rpc, the except branch: the connection to a peer that was stopped, or
\* to a port where no node listens, fails; the exception is caught and the
\* calling thread calls exit()
Unreachable(net, caller, target) ==
    caller # target /\ (target \in net.down \/ net.ft[target] = <<>>)

\* most iterations / nested calls any loop of an atomic operation is followed
\* for; a loop that has not ended by then is reported through `ok`
HopLimit == NODES + 2

\* ---- lookup -----------------------------------------------------------------
\* ChordNode.closest_preceding_finger: the scan `for i in range(M, 0, -1)`
RECURSIVE cpf_scan(_, _, _, _)
cpf_scan(net, n, id, i) ==
    IF i = 0 THEN n
    ELSE IF Contains(ModRange(n + 1, id, NODES), net.ft[n][i].successor)
         THEN net.ft[n][i].successor
         ELSE cpf_scan(net, n, id, i - 1)

closest_preceding_finger(net, n, id) == cpf_scan(net, n, id, M)

\* find_predecessor, the three locals before the loop
fp_enter(net, self, id) ==
    [node_p_number    |-> self,
     node_p_successor |-> successor(net, self),
     node_p_port      |-> self,
     hops             |-> 0,
     rpcs             |-> 0,
     lost             |-> FALSE,
     log              |-> <<>>]

\* the loop condition with the interval ending at the successor, not after it
fp_exit_open(s, id) ==
    Contains(ModRange(s.node_p_number + 1, s.node_p_successor, NODES), id)

\* find_predecessor, the negated loop condition
fp_exit(s, id) ==
    Contains(ModRange(s.node_p_number + 1, s.node_p_successor + 1, NODES), id)

\* find_predecessor, one pass through the loop body: both RPCs go to
\* node_p_port as it was on entry to the pass, and only then is it advanced
fp_body(net, self, id, s) ==
    LET node_p == closest_preceding_finger(net, s.node_p_port, id)
    IN  IF Unreachable(net, self, s.node_p_port)
        THEN [s EXCEPT !.rpcs = @ + 1, !.lost = TRUE,
                       !.log = @ \o Sent(self, s.node_p_port)]
        ELSE [node_p_number    |-> node_p,
              node_p_successor |-> successor(net, s.node_p_port),
              node_p_port      |-> node_p,
              hops             |-> s.hops + 1,
              rpcs             |-> s.rpcs + 2 * Remote(self, s.node_p_port),
              lost             |-> FALSE,
              log              |-> s.log \o Sent(self, s.node_p_port)
                                         \o Sent(self, s.node_p_port)]

RECURSIVE fp_loop(_, _, _, _, _)
fp_loop(net, self, id, s, fuel) ==
    LET out(ok) == [node |-> s.node_p_number, hops |-> s.hops, rpcs |-> s.rpcs,
                    ok |-> ok, lost |-> s.lost, log |-> s.log]
    IN  IF s.lost THEN out(TRUE)
        ELSE IF fp_exit(s, id) THEN out(TRUE)
        ELSE IF fuel = 0 THEN out(FALSE)
        ELSE fp_loop(net, self, id, fp_body(net, self, id, s), fuel - 1)

\* ChordNode.find_predecessor(id) run at node self
find_predecessor(net, self, id) ==
    fp_loop(net, self, id, fp_enter(net, self, id), HopLimit)

\* ChordNode.find_successor(id) run at node self
find_successor(net, self, id) ==
    LET node_p == find_predecessor(net, self, id)
    IN  IF node_p.lost
        THEN [node |-> None, rpcs |-> node_p.rpcs, ok |-> node_p.ok,
              lost |-> TRUE, log |-> node_p.log]
        ELSE [node |-> IF Unreachable(net, self, node_p.node) THEN None
                       ELSE successor(net, node_p.node),
              rpcs |-> node_p.rpcs + Remote(self, node_p.node),
              ok   |-> node_p.ok,
              lost |-> Unreachable(net, self, node_p.node),
              log  |-> node_p.log \o Sent(self, node_p.node)]

\* ---- join -------------------------------------------------------------------
\* the assignment replaces the entry's start as well
SetFinger_start(net, n, i, node) ==
    [net EXCEPT !.ft[n][i].successor = node, !.ft[n][i].start = node]

\* assignment to finger_table[i].successor of node n
SetFinger(net, n, i, node) ==
    [net EXCEPT !.ft[n][i].successor = node]

\* dispatch_rpc, method 'find_predecessor': the node asked about itself
\* answers with its predecessor pointer, anything else runs the lookup
dispatch_find_predecessor(net, at, arg1) ==
    IF arg1 = at THEN net.pred[at]
    ELSE find_predecessor(net, at, arg1).node

\* the successor never learns of its new predecessor
update_your_predecessor_dropped(net, at, arg1) == net

\* dispatch_rpc, method 'update_your_predecessor', at node `at`
update_your_predecessor(net, at, arg1) ==
    [net EXCEPT !.pred[at] = arg1]

\* init_finger_table, the loop `for i in range(1, M)` from index i on
RECURSIVE init_fingers_from(_, _, _, _)
init_fingers_from(net, n, node_p, i) ==
    IF i >= M THEN net
    ELSE IF Contains(ModRange(n, net.ft[n][i].successor, NODES), net.ft[n][i + 1].start)
    THEN init_fingers_from(SetFinger(net, n, i + 1, net.ft[n][i].successor),
                           n, node_p, i + 1)
    ELSE LET r == find_successor(net, node_p, net.ft[n][i + 1].start)
         IN  init_fingers_from(
                 [SetFinger(net, n, i + 1, r.node)
                     EXCEPT !.rpcs = @ + Remote(n, node_p) + r.rpcs,
                            !.ok = @ /\ r.ok],
                 n, node_p, i + 1)

\* the successor is told of its new predecessor before it is asked for the
\* old one
init_finger_table_late_read(net, n, node_p) ==
    LET r    == find_successor(net, node_p, net.ft[n][1].start)
        net1 == [SetFinger(net, n, 1, r.node)
                    EXCEPT !.rpcs = @ + Remote(n, node_p) + r.rpcs,
                           !.ok = @ /\ r.ok]
        succ == successor(net1, n)
        net2 == [update_your_predecessor(net1, succ, n)
                    EXCEPT !.rpcs = @ + Remote(n, succ)]
        net3 == [net2 EXCEPT !.pred[n] = dispatch_find_predecessor(net2, succ, succ),
                             !.rpcs = @ + Remote(n, succ)]
    IN  init_fingers_from(net3, n, node_p, 1)

\* init_finger_table up to its loop: finger 1 from node_p's find_successor,
\* the predecessor from the successor, and update_your_predecessor sent to it
init_link(net, n, node_p) ==
    LET r    == find_successor(net, node_p, net.ft[n][1].start)
        net1 == [SetFinger(net, n, 1, r.node)
                    EXCEPT !.rpcs = @ + Remote(n, node_p) + r.rpcs,
                           !.ok = @ /\ r.ok]
        succ == successor(net1, n)
        net2 == [net1 EXCEPT !.pred[n] = dispatch_find_predecessor(net1, succ, succ),
                             !.rpcs = @ + Remote(n, succ)]
    IN  [update_your_predecessor(net2, succ, n)
            EXCEPT !.rpcs = @ + Remote(n, succ)]

\* ChordNode.init_finger_table(node_p) run at the joining node n
init_finger_table(net, n, node_p) ==
    init_fingers_from(init_link(net, n, node_p), n, node_p, 1)

\* the finger is assigned whatever it holds, and the update is not passed on
update_finger_table_unguarded(net, at, s, i, fuel) ==
    [SetFinger(net, at, i, s) EXCEPT !.log = Append(@, <<"set", at, i>>)]

\* only the test for an exact finger is made before the finger is assigned
\* and the update is passed on
RECURSIVE update_finger_table_unchecked(_, _, _, _, _)
update_finger_table_unchecked(net, at, s, i, fuel) ==
    IF net.ft[at][i].start # net.ft[at][i].successor
    THEN LET net1 == [SetFinger(net, at, i, s)
                         EXCEPT !.log = Append(@, <<"set", at, i>>)]
             p    == net1.pred[at]
             net2 == [net1 EXCEPT !.rpcs = @ + Remote(at, p),
                                  !.log = @ \o Sent(at, p)]
         IN  IF fuel = 0 THEN [net1 EXCEPT !.ok = FALSE]
             ELSE IF Unreachable(net1, at, p) THEN [net2 EXCEPT !.lost = TRUE]
             ELSE update_finger_table_unchecked(net2, p, s, i, fuel - 1)
    ELSE net

\* ChordNode.update_finger_table(s, i) run at node `at`, with the chain of
\* calls to the predecessors it sets off. At a node whose finger i is still
\* None the guard raises TypeError: the handler thread ends with no
\* response, and so does every caller up the chain.
RECURSIVE update_finger_table(_, _, _, _, _)
update_finger_table(net, at, s, i, fuel) ==
    IF net.ft[at][i].successor = None
    THEN [net EXCEPT !.lost = TRUE, !.log = Append(@, <<"unset", at, i>>)]
    ELSE
    IF /\ net.ft[at][i].start # net.ft[at][i].successor
       /\ Contains(ModRange(net.ft[at][i].start, net.ft[at][i].successor, NODES), s)
    THEN LET net1 == [SetFinger(net, at, i, s)
                         EXCEPT !.log = Append(@, <<"set", at, i>>)]
             p    == net1.pred[at]
             net2 == [net1 EXCEPT !.rpcs = @ + Remote(at, p),
                                  !.log = @ \o Sent(at, p)]
         IN  IF fuel = 0 THEN [net1 EXCEPT !.ok = FALSE]
             ELSE IF Unreachable(net1, at, p) THEN [net2 EXCEPT !.lost = TRUE]
             ELSE update_finger_table(net2, p, s, i, fuel - 1)
    ELSE net

\* update_others, the loop `for i in range(1, M + 1)` from index i on
RECURSIVE update_others_from(_, _, _)
update_others_from(net, n, i) ==
    IF i > M \/ net.lost THEN net
    ELSE LET node_p == find_predecessor(net, n, (1 + n - 2 ^ (i - 1) + NODES) % NODES)
             net1   == [net EXCEPT !.rpcs = @ + node_p.rpcs + Remote(n, node_p.node),
                                   !.ok = @ /\ node_p.ok,
                                   !.log = @ \o Sent(n, node_p.node)]
         IN  update_others_from(
                 update_finger_table(net1, node_p.node, n, i, HopLimit), n, i + 1)

\* ChordNode.update_others() run at the joining node n
update_others(net, n) == update_others_from(net, n, 1)

\* ChordNode.join(node_p), node_p an existing node
join_via(net, n, node_p) == update_others(init_finger_table(net, n, node_p), n)

\* the first node sets its fingers and leaves its predecessor unset
join_first_nopred(net, n) ==
    [net EXCEPT !.ft[n] = [i \in 1 .. M |-> [@[i] EXCEPT !.successor = n]]]

\* the first node fills fingers 1..M-1 only
join_first_short(net, n) ==
    [net EXCEPT !.ft[n] = [i \in 1 .. M |->
                              IF i < M THEN [@[i] EXCEPT !.successor = n] ELSE @[i]],
                !.pred[n] = n]

\* ChordNode.join(None): the first node of a ring
join_first(net, n) ==
    [net EXCEPT !.ft[n] = [i \in 1 .. M |-> [@[i] EXCEPT !.successor = n]],
                !.pred[n] = n]

\* ---- key store ----------------------------------------------------------------
\* The two key fields of a row as the strings str() gives for them
Players == {"a", "a1"}
Years == {"19", "9"}

\* the data rows a client may submit: row[0] is the player id, row[3] the
\* year; two rows with the same key fields, two whose key fields differ but
\* concatenate to the same string, and two more with keys of their own
Rows == { <<"a", "x", "t", "19">>, <<"a", "y", "t", "19">>, <<"a1", "x", "t", "9">>,
          <<"a", "x", "t", "9">>, <<"a1", "x", "t", "19">> }

\* sha1_hash: one fixed integer per string, different strings giving
\* different integers.  For the endpoint of the first node it is the low 20
\* bits of the SHA-1 digest; the key strings "a9" and "a119" agree in their
\* low M bits
sha1_hash(id_string) ==
    CASE id_string = "127.0.0.043500" -> 928538
      [] id_string = "a19"  -> 3 * NODES + 5
      [] id_string = "a9"   -> 2 * NODES + 6
      [] id_string = "a119" -> 5 * NODES + 6

\* ChordNode.put_key: self.keys[key_id] = key_value
put_key(ks, n, key_id, key_value) ==
    [ks EXCEPT ![n] = {e \in @ : e[1] # key_id} \cup {<<key_id, key_value>>}]

\* the None that get_key returns for a key it does not hold
NoRow == <<>>

\* print_keys_dictionary, called by put_key after the assignment: value[0] and
\* value[3] of every stored value are read, which raises for a value that is
\* None or too short
print_keys_dictionary_raises(ks, n) == \E e \in ks[n] : Len(e[2]) < 4

\* ChordNode.get_key: the stored value, or None
get_key(ks, n, key_id) ==
    IF \E e \in ks[n] : e[1] = key_id
    THEN (CHOOSE e \in ks[n] : e[1] = key_id)[2]
    ELSE NoRow

\* ---- state machine --------------------------------------------------------
Net == [ft |-> finger_table, pred |-> predecessor, rpcs |-> 0, ok |-> TRUE,
        down |-> down, lost |-> FALSE, log |-> <<>>]

NoHandler == [pc |-> "idle"]
NoThread == [pc |-> "idle"]

\* most handler threads followed inside update_finger_table at one time
Threads == {1, 2}

NoCalc == [op |-> "none"]
NoJoin == [pc |-> "idle"]
NoCall == [pc |-> "idle"]
NoReply == [op |-> "none"]

Init ==
    /\ joined = {}
    /\ finger_table = [n \in Ids |-> <<>>]
    /\ predecessor = [n \in Ids |-> None]
    /\ keys = [n \in Ids |-> {}]
    /\ rpc_count = 0
    /\ hung = FALSE
    /\ fp = NoCall
    /\ reply = NoReply
    /\ nputs = 0
    /\ down = {}
    /\ handler = NoHandler
    /\ threads = [t \in Threads |-> NoThread]
    /\ calc = NoCalc
    /\ joining = NoJoin

\* ChordNode.__init__ with port_number = 0: the node listens on TEST_BASE, and
\* initialize_empty_finger_table derives its number from that endpoint
FirstNode == sha1_hash("127.0.0.0" \o ToString(TEST_BASE)) % (2 ^ M)

\* the constructor up to the call of join(): the node listens, takes the
\* number n its endpoint hashes to (any number, for a port the system
\* assigns) and builds the empty table
Started(n) ==
    [Net EXCEPT !.ft[n] = initialize_empty_finger_table(n)]

\* the successor hands its keys to the node that joined
Installed_moving(net, n) ==
    /\ finger_table' = net.ft
    /\ predecessor' = net.pred
    /\ rpc_count' = net.rpcs
    /\ hung' = ~net.ok
    /\ joined' = IF net.ok THEN joined \cup {n} ELSE joined
    /\ fp' = NoCall
    /\ reply' = NoReply
    /\ keys' = IF successor(net, n) = n THEN keys
               ELSE [keys EXCEPT ![n] = keys[successor(net, n)],
                                 ![successor(net, n)] = {}]
    /\ UNCHANGED nputs
    /\ UNCHANGED rpcvars
    /\ UNCHANGED stepvars

\* join() has returned: the tables the join left behind are the state of the
\* ring; no key store is touched
Installed(net, n) ==
    /\ finger_table' = net.ft
    /\ predecessor' = net.pred
    /\ rpc_count' = net.rpcs
    /\ hung' = ~net.ok
    /\ joined' = IF net.ok THEN joined \cup {n} ELSE joined
    /\ fp' = NoCall
    /\ reply' = NoReply
    /\ UNCHANGED <<keys, nputs>>
    /\ UNCHANGED rpcvars
    /\ UNCHANGED stepvars

\* every NodeRef held by a node of the ring names a node that listens
RefsLive ==
    \A m \in joined :
        /\ predecessor[m] \in joined \ down
        /\ \A i \in 1 .. M : finger_table[m][i].successor \in joined \ down

\* `python chord_node.py 0`: a node starts a new ring
JoinFirst ==
    /\ joined = {} /\ ~hung
    /\ fp.pc = "idle"
    /\ down = {} /\ handler.pc = "idle"
    /\ Installed(join_first(Started(FirstNode), FirstNode), FirstNode)

\* `python chord_node.py <port of b>`: node n joins through the live node b.
\* Joins are followed while every peer the ring refers to is reachable; a
\* join that meets an unreachable peer ends in exit() part-way.
JoinVia(n, b, limit) ==
    /\ n \notin joined /\ b \in joined /\ ~hung
    /\ Cardinality(joined) < limit
    /\ fp.pc = "idle" /\ reply.op # "query"
    /\ RefsLive /\ handler.pc = "idle"
    /\ \A t \in Threads : threads[t].pc = "idle"
    /\ Installed(join_via(Started(n), n, b), n)

\* ---- a find_successor call unfolded -------------------------------------
\* find_successor(id) is called at node n: find_predecessor is entered
FindStart(n, id) ==
    /\ n \in joined /\ ~hung
    /\ fp.pc = "idle" /\ reply.op # "query"
    /\ fp' = [pc |-> "loop", self |-> n, id |-> id, asked |-> n,
              s |-> fp_enter(Net, n, id)]
    /\ reply' = NoReply
    /\ UNCHANGED <<joined, finger_table, predecessor, keys, rpc_count, hung, nputs>>
    /\ UNCHANGED rpcvars
    /\ UNCHANGED stepvars

\* one pass through the while loop of find_predecessor
FindHop ==
    /\ fp.pc = "loop"
    /\ ~fp_exit(fp.s, fp.id)
    /\ fp.s.hops < HopLimit
    /\ fp' = [fp EXCEPT !.s = fp_body(Net, fp.self, fp.id, fp.s),
                        !.asked = fp.s.node_p_port]
    /\ UNCHANGED <<joined, finger_table, predecessor, keys, rpc_count, hung, reply, nputs>>
    /\ UNCHANGED rpcvars
    /\ UNCHANGED stepvars

\* the loop condition fails: find_predecessor returns node_p and
\* find_successor returns what node_p answers to 'successor'
FindReturn ==
    /\ fp.pc = "loop"
    /\ fp_exit(fp.s, fp.id)
    /\ fp' = [pc |-> "done", self |-> fp.self, id |-> fp.id,
              hops |-> fp.s.hops,
              node_p |-> fp.s.node_p_number,
              result |-> successor(Net, fp.s.node_p_number)]
    /\ UNCHANGED <<joined, finger_table, predecessor, keys, rpc_count, hung, reply, nputs>>
    /\ UNCHANGED rpcvars
    /\ UNCHANGED stepvars

\* the caller has taken the result
FindClose ==
    /\ fp.pc = "done"
    /\ fp' = NoCall
    /\ UNCHANGED <<joined, finger_table, predecessor, keys, rpc_count, hung, reply, nputs>>
    /\ UNCHANGED rpcvars
    /\ UNCHANGED stepvars

\* ---- populate and query ---------------------------------------------------
\* the row is kept by the node that received it, without a lookup
save_data_here(net, ks, x, row) ==
    [keys |-> put_key(ks, x, sha1_hash(row[1] \o row[4]), row),
     text |-> <<"Node saved the row", x>>,
     raised |-> FALSE, log |-> <<>>, ok |-> TRUE]

\* ChordNode.save_data(row) run at node x (RPC 'populate')
save_data(net, ks, x, row) ==
    LET data_id     == sha1_hash(row[1] \o row[4])
        bucket_id   == data_id % (2 ^ M)
        r           == find_successor(net, x, bucket_id)
        responsible == r.node
        stored      == put_key(ks, responsible, data_id, row)
        raise(k, l) == [keys |-> k, text |-> <<"", None>>, raised |-> TRUE, log |-> l,
                        ok |-> r.ok]
    IN  IF r.lost THEN raise(ks, r.log)
        ELSE IF Unreachable(net, x, responsible)
        THEN raise(ks, r.log \o Sent(x, responsible))
        ELSE LET l == r.log \o Sent(x, responsible)
                            \o << <<"put", responsible, data_id>> >>
             IN  IF print_keys_dictionary_raises(stored, responsible)
                 THEN raise(stored, l)
                 ELSE [keys |-> stored,
                       text |-> <<"Node saved the row", responsible>>,
                       raised |-> FALSE, log |-> l, ok |-> r.ok]

\* the None of get_key is not told from a value of the wrong type
query_data_no_absent(net, ks, y, player_id, year) ==
    LET data_id == sha1_hash(player_id \o year)
        row     == get_key(ks, find_successor(net, y, data_id % (2 ^ M)).node, data_id)
    IN  IF row \in Rows
        THEN [row |-> row, text |-> "", raised |-> FALSE, log |-> <<>>, ok |-> TRUE]
        ELSE [row |-> NoRow, text |-> "Query failed!", raised |-> FALSE, log |-> <<>>,
              ok |-> TRUE]

\* ChordNode.query_data(player_id, year) run at node y (RPC 'query'); the
\* value returned is a row or a message, held in the field that fits it
query_data(net, ks, y, player_id, year) ==
    LET data_id     == sha1_hash(player_id \o year)
        bucket_id   == data_id % (2 ^ M)
        r           == find_successor(net, y, bucket_id)
        responsible == r.node
        row         == get_key(ks, responsible, data_id)
        out(v, t, l) == [row |-> v, text |-> t, raised |-> FALSE, log |-> l,
                         ok |-> r.ok]
    IN  IF r.lost
        THEN [row |-> NoRow, text |-> "", raised |-> TRUE, log |-> r.log, ok |-> r.ok]
        ELSE IF Unreachable(net, y, responsible)
        THEN [row |-> NoRow, text |-> "", raised |-> TRUE,
              log |-> r.log \o Sent(y, responsible), ok |-> r.ok]
        ELSE LET l == r.log \o Sent(y, responsible)
             IN  IF row = NoRow THEN out(NoRow, "Data is not available.", l)
                 ELSE IF row \in Rows THEN out(row, "", l)
                 ELSE out(NoRow, "Query failed!", l)

\* a client sends ('populate', row, None) to node x; at most `limit` such
\* requests are followed
Populate(x, row, limit) ==
    /\ x \in joined /\ ~hung
    /\ fp.pc = "idle" /\ reply.op # "query"
    /\ nputs < limit
    /\ LET r == save_data(Net, keys, x, row)
       IN  /\ keys' = r.keys
           /\ reply' = [op |-> "populate", at |-> x, row |-> row, text |-> r.text,
                        sent |-> ~r.raised]
    /\ nputs' = nputs + 1
    /\ UNCHANGED <<joined, finger_table, predecessor, rpc_count, hung, fp>>
    /\ UNCHANGED rpcvars
    /\ UNCHANGED stepvars

\* a client sends ('query', player_id, year) to node y
Query(y, player_id, year) ==
    /\ y \in joined /\ ~hung
    /\ fp.pc = "idle" /\ reply.op # "query"
    /\ reply' = [op |-> "query", at |-> y, player_id |-> player_id, year |-> year,
                 result |-> query_data(Net, keys, y, player_id, year)]
    /\ UNCHANGED <<joined, finger_table, predecessor, keys, rpc_count, hung, fp, nputs>>
    /\ UNCHANGED rpcvars
    /\ UNCHANGED stepvars

\* the client has taken the response to its query
QueryClose ==
    /\ reply.op = "query"
    /\ reply' = NoReply
    /\ UNCHANGED <<joined, finger_table, predecessor, keys, rpc_count, hung, fp, nputs>>
    /\ UNCHANGED rpcvars
    /\ UNCHANGED stepvars

\* ---- the RPC handler -------------------------------------------------------
\* A value on the wire, by its Python type: None, an int (an identifier, a
\* finger index, a key), a NodeRef dictionary, a list (a data row), a str,
\* True, or the text save_data formats around a node number.
NoneVal == [t |-> "none"]
IntVal(v) == [t |-> "int", v |-> v]
RefVal(v) == [t |-> "ref", v |-> v]
RowVal(v) == [t |-> "row", v |-> v]
StrVal(v) == [t |-> "str", v |-> v]
SavedVal(v) == [t |-> "saved", v |-> v]
TrueVal == [t |-> "true"]

\* a key or a row as put_key / get_key see it: None where the argument is
\* missing
KeyOf(arg) == IF arg.t = "none" THEN None ELSE arg.v
ValueOf(arg) == IF arg.t = "none" THEN NoRow ELSE arg.v

\* the value dispatch_rpc returns for 'populate', save_data having run
populate_result(net, r) ==
    [net    |-> [net EXCEPT !.log = r.log, !.lost = r.raised, !.ok = r.ok],
     keys   |-> r.keys,
     raised |-> r.raised,
     value  |-> IF r.raised THEN NoneVal ELSE SavedVal(r.text[2])]

\* the value dispatch_rpc returns for 'query', query_data having run
query_result(net, ks, r) ==
    [net    |-> [net EXCEPT !.log = r.log, !.lost = r.raised, !.ok = r.ok],
     keys   |-> ks,
     raised |-> r.raised,
     value  |-> IF r.raised THEN NoneVal
                ELSE IF r.row = NoRow THEN StrVal(r.text) ELSE RowVal(r.row)]

\* whatever the request, the node that serves it takes itself for its
\* predecessor
dispatch_rpc_resetting(net, ks, at, method, arg1, arg2) ==
    [net |-> [net EXCEPT !.pred[at] = at], keys |-> ks, raised |-> FALSE,
     value |-> NoneVal]

\* ChordNode.dispatch_rpc(method, arg1, arg2) run at node `at`:
\* [net, keys, raised, value], raised when the call leaves through exit() or
\* an exception instead of returning a value; net.ok is FALSE when a loop of
\* the call does not end
dispatch_rpc(net, ks, at, method, arg1, arg2) ==
    LET ret(n, k, v) == [net |-> n, keys |-> k, raised |-> FALSE, value |-> v]
        raise(n, k)  == [net |-> n, keys |-> k, raised |-> TRUE, value |-> NoneVal]
    IN  CASE method = "successor" -> ret(net, ks, RefVal(successor(net, at)))
          [] method = "update_finger_table" ->
                IF arg1.t = "none" \/ arg2.t = "none" THEN raise(net, ks)
                ELSE LET n2 == update_finger_table(net, at, arg1.v, arg2.v, HopLimit)
                     IN  IF n2.lost THEN raise(n2, ks) ELSE ret(n2, ks, NoneVal)
          [] method = "find_predecessor" ->
                IF arg1.t = "ref" /\ arg1.v = at
                THEN ret(net, ks, RefVal(net.pred[at]))
                ELSE raise(net, ks)
          [] method = "update_your_predecessor" ->
                IF arg1.t = "none" THEN raise(net, ks)
                ELSE ret(update_your_predecessor(net, at, arg1.v), ks, NoneVal)
          [] method = "find_successor" ->
                IF arg1.t = "none" THEN raise(net, ks)
                ELSE LET r  == find_successor(net, at, arg1.v)
                         n2 == [net EXCEPT !.log = r.log, !.lost = r.lost, !.ok = r.ok]
                     IN  IF r.lost THEN raise(n2, ks) ELSE ret(n2, ks, RefVal(r.node))
          [] method = "closest_preceding_finger" ->
                IF arg1.t = "none" THEN raise(net, ks)
                ELSE ret(net, ks, RefVal(closest_preceding_finger(net, at, arg1.v)))
          [] method = "populate" ->
                IF arg1.t = "none"
                THEN ret(net, ks, StrVal("The row to populate is either missing or incorrect."))
                ELSE populate_result(net, save_data(net, ks, at, arg1.v))
          [] method = "put_key" ->
                LET k  == put_key(ks, at, KeyOf(arg1), ValueOf(arg2))
                    n2 == [net EXCEPT !.log = Append(@, <<"put", at, KeyOf(arg1)>>)]
                IN  IF print_keys_dictionary_raises(k, at) THEN raise(n2, k)
                    ELSE ret(n2, k, TrueVal)
          [] method = "query" ->
                IF arg1.t = "none" \/ arg2.t = "none"
                THEN ret(net, ks, StrVal("Pass the player id and year to find the row."))
                ELSE query_result(net, ks, query_data(net, ks, at, arg1.v, arg2.v))
          [] method = "get_key" ->
                LET row == get_key(ks, at, KeyOf(arg1))
                IN  IF row = NoRow THEN ret(net, ks, NoneVal) ELSE ret(net, ks, RowVal(row))
          [] OTHER -> ret(net, ks, NoneVal)

\* the keys that rows hash to
DataIds == {sha1_hash(row[1] \o row[4]) : row \in Rows}

Opt(S) == S \cup {NoneVal}

\* the requests a peer or a client may send: every method of dispatch_rpc with
\* each argument present or missing, find_predecessor with an identifier and
\* with a NodeRef, and a method name dispatch_rpc does not know
Req(method, arg1, arg2) == [method |-> method, arg1 |-> arg1, arg2 |-> arg2]

Requests ==
    {Req("successor", NoneVal, NoneVal), Req("ping", NoneVal, NoneVal)}
    \cup {Req(m, a, NoneVal) :
             m \in {"find_successor", "closest_preceding_finger"},
             a \in Opt({IntVal(id) : id \in Ids})}
    \cup {Req("find_predecessor", a, NoneVal) :
             a \in Opt({IntVal(id) : id \in Ids} \cup {RefVal(n) : n \in Ids})}
    \cup {Req("update_finger_table", a, b) :
             a \in Opt({RefVal(n) : n \in Ids}), b \in Opt({IntVal(i) : i \in 1 .. M})}
    \cup {Req("update_your_predecessor", a, NoneVal) : a \in Opt({RefVal(n) : n \in Ids})}
    \cup {Req("populate", a, NoneVal) : a \in Opt({RowVal(r) : r \in Rows})}
    \cup {Req("put_key", a, b) :
             a \in Opt({IntVal(k) : k \in DataIds}), b \in Opt({RowVal(r) : r \in Rows})}
    \cup {Req("query", a, b) :
             a \in Opt({StrVal(p) : p \in Players}), b \in Opt({StrVal(y) : y \in Years})}
    \cup {Req("get_key", a, NoneVal) : a \in Opt({IntVal(k) : k \in DataIds})}

\* the requests that take a route through the ring or write a finger, with
\* their arguments present
Routed ==
    {r \in Requests :
        /\ r.method \in {"find_successor", "populate", "query", "update_finger_table"}
        /\ r.arg1 # NoneVal
        /\ r.method \in {"query", "update_finger_table"} => r.arg2 # NoneVal}

\* the requests of the methods dispatch_rpc knows, with every argument the
\* method takes present
Complete ==
    {r \in Requests :
        \/ r.method = "successor"
        \/ /\ r.method \in {"find_successor", "closest_preceding_finger", "find_predecessor",
                             "update_your_predecessor", "populate", "get_key"}
           /\ r.arg1 # NoneVal
        \/ /\ r.method \in {"update_finger_table", "put_key", "query"}
           /\ r.arg1 # NoneVal /\ r.arg2 # NoneVal}

\* the methods whose handler assigns to the node's state
Writes(req) ==
    req.method \in {"update_finger_table", "update_your_predecessor", "populate", "put_key"}

\* start_listening accepts a connection and handle_rpc runs on a thread of
\* its own: the request is read, dispatched once, and the result is sent
\* back, unless dispatch_rpc raised, in which case the thread ends in exit()
\* with nothing sent, or it never returns
handle_rpc(n, req, d) ==
    /\ finger_table' = d.net.ft
    /\ predecessor' = d.net.pred
    /\ keys' = d.keys
    /\ handler' = [pc |-> IF d.net.ok THEN "ended" ELSE "looping",
                   at |-> n, req |-> req,
                   dispatched |-> 1,
                   responses |-> IF d.raised \/ ~d.net.ok THEN 0 ELSE 1,
                   value |-> d.value, log |-> d.net.log]

\* a peer or a client connects to node n and sends req
Request(n, req) ==
    /\ n \in joined /\ n \notin down /\ ~hung
    /\ fp.pc = "idle" /\ reply = NoReply
    /\ handler.pc = "idle"
    /\ \A t \in Threads : threads[t].pc = "idle"
    /\ Writes(req) => nputs < MaxPuts
    /\ handle_rpc(n, req, dispatch_rpc(Net, keys, n, req.method, req.arg1, req.arg2))
    /\ nputs' = IF Writes(req) THEN nputs + 1 ELSE nputs
    /\ UNCHANGED <<joined, rpc_count, hung, fp, reply, down, threads>>
    /\ UNCHANGED stepvars

\* both sides have closed the connection
HandlerClose ==
    /\ handler.pc = "ended"
    /\ handler' = NoHandler
    /\ UNCHANGED <<joined, finger_table, predecessor, keys, rpc_count, hung, fp,
                   reply, nputs, down, threads>>
    /\ UNCHANGED stepvars

\* the process of node n is stopped; its port refuses connections from now on
Crash(n) ==
    /\ n \in joined /\ down = {}
    /\ fp.pc = "idle" /\ reply = NoReply
    /\ handler.pc = "idle"
    /\ down' = {n}
    /\ UNCHANGED <<joined, finger_table, predecessor, keys, rpc_count, hung, fp,
                   reply, nputs, handler, threads>>
    /\ UNCHANGED stepvars

\* ---- interval objects on their own ------------------------------------------
\* the arguments ModRange and FingerEntry are built from: a divisor up to
\* MaxDivisor with start and stop inside and outside [0, divisor), and a node
\* number with a finger index
RangeArgs ==
    {[op |-> "range_args", start |-> a, stop |-> b, divisor |-> d, id |-> x] :
        d \in 1 .. MaxDivisor, a \in -MaxDivisor .. 2 * MaxDivisor,
        b \in -MaxDivisor .. 2 * MaxDivisor, x \in 0 .. MaxDivisor - 1}

FingerArgs ==
    {[op |-> "finger_args", n |-> n, k |-> k, id |-> x] :
        n \in Ids, k \in 1 .. M, x \in Ids}

\* no node is running; one object is about to be built
InitPure ==
    /\ joined = {}
    /\ finger_table = [n \in Ids |-> <<>>]
    /\ predecessor = [n \in Ids |-> None]
    /\ keys = [n \in Ids |-> {}]
    /\ rpc_count = 0
    /\ hung = FALSE
    /\ fp = NoCall
    /\ reply = NoReply
    /\ nputs = 0
    /\ down = {}
    /\ handler = NoHandler
    /\ threads = [t \in Threads |-> NoThread]
    /\ joining = NoJoin
    /\ calc \in {a \in RangeArgs : a.id < a.divisor} \cup FingerArgs

\* mr = ModRange(start, stop, divisor); `id in mr`, len(mr) and iter(mr)
RangeNew ==
    /\ calc.op = "range_args"
    /\ calc' = [op |-> "range", start |-> calc.start, stop |-> calc.stop,
                divisor |-> calc.divisor, id |-> calc.id,
                mr |-> ModRange(calc.start, calc.stop, calc.divisor),
                contains |-> Contains(ModRange(calc.start, calc.stop, calc.divisor),
                                      calc.id),
                len |-> ModRange_len(ModRange(calc.start, calc.stop, calc.divisor)),
                pc |-> "iterating", i |-> 0, j |-> -1, yielded |-> <<>>]
    /\ UNCHANGED <<joined, finger_table, predecessor, keys, rpc_count, hung, fp, reply,
                   nputs, joining>>
    /\ UNCHANGED rpcvars

\* next(it): ModRangeIter.__next__ yields a value or raises StopIteration
IterNext ==
    /\ calc.op = "range" /\ calc.pc = "iterating"
    /\ calc' =
          IF calc.j = range_len(calc.mr, calc.i) - 1
          THEN IF iter_at_last_range(calc.mr, calc.i)
               THEN [calc EXCEPT !.pc = "stopped"]
               ELSE [calc EXCEPT !.i = @ + 1, !.j = 0,
                                 !.yielded = Append(@, range_at(calc.mr, calc.i + 1, 0))]
          ELSE [calc EXCEPT !.j = @ + 1,
                            !.yielded = Append(@, range_at(calc.mr, calc.i, calc.j + 1))]
    /\ UNCHANGED <<joined, finger_table, predecessor, keys, rpc_count, hung, fp, reply,
                   nputs, joining>>
    /\ UNCHANGED rpcvars

\* fe = FingerEntry(n, k); `id in fe`
FingerNew ==
    /\ calc.op = "finger_args"
    /\ calc' = [op |-> "finger", n |-> calc.n, k |-> calc.k, id |-> calc.id,
                fe |-> FingerEntry(calc.n, calc.k),
                contains |-> FingerContains(FingerEntry(calc.n, calc.k), calc.id)]
    /\ UNCHANGED <<joined, finger_table, predecessor, keys, rpc_count, hung, fp, reply,
                   nputs, joining>>
    /\ UNCHANGED rpcvars

\* ---- a join in its two calls ------------------------------------------------
\* init_finger_table(node_p) of node n has returned to join(): the tables are
\* as it left them, and the join remembers the node s that node_p's
\* find_successor gave for finger 1 and the predecessor s had before; n is
\* not a member until update_others has run. A lookup that never returns
\* leaves the join hanging.
InitReturned(net, n, node_p, s) ==
    /\ finger_table' = net.ft
    /\ predecessor' = net.pred
    /\ rpc_count' = net.rpcs
    /\ hung' = ~net.ok
    /\ joining' = IF net.ok
                  THEN [pc |-> "update_others", n |-> n, node_p |-> node_p,
                        s |-> s, s_predecessor |-> predecessor[s]]
                  ELSE NoJoin
    /\ UNCHANGED <<joined, keys, nputs, fp, reply, calc>>
    /\ UNCHANGED rpcvars

\* join(node_p), the call self.init_finger_table(node_p) at the node n that
\* was started with the port of b
JoinInit(n, b, limit) ==
    /\ n \notin joined /\ b \in joined /\ ~hung
    /\ Cardinality(joined) < limit
    /\ fp.pc = "idle" /\ reply.op # "query"
    /\ RefsLive /\ handler.pc = "idle"
    /\ \A t \in Threads : threads[t].pc = "idle"
    /\ joining.pc = "idle"
    /\ InitReturned(init_finger_table(Started(n), n, b), n, b,
                    find_successor(Started(n), b, Started(n).ft[n][1].start).node)

\* update_others() of node n has returned and with it join()
OthersUpdated(net, n) ==
    /\ finger_table' = net.ft
    /\ predecessor' = net.pred
    /\ rpc_count' = rpc_count + net.rpcs
    /\ hung' = ~net.ok
    /\ joined' = IF net.ok THEN joined \cup {n} ELSE joined
    /\ joining' = NoJoin
    /\ UNCHANGED <<keys, nputs, fp, reply, calc>>
    /\ UNCHANGED rpcvars

\* join(node_p), the call self.update_others()
JoinUpdateOthers ==
    /\ joining.pc = "update_others"
    /\ OthersUpdated(update_others(Net, joining.n), joining.n)

\* ---- two joins at a time ----------------------------------------------------
\* init_finger_table of node n has sent update_your_predecessor and stands
\* before its loop: finger 1 and the predecessor of n are set, fingers 2..M
\* are None; n listens, as it has since its constructor started the listener
Linked(net, n, node_p, s) ==
    /\ finger_table' = net.ft
    /\ predecessor' = net.pred
    /\ rpc_count' = net.rpcs
    /\ hung' = ~net.ok
    /\ joining' = IF net.ok
                  THEN [pc |-> "init_fingers", n |-> n, node_p |-> node_p,
                        s |-> s, s_predecessor |-> predecessor[s], reached |-> <<>>]
                  ELSE NoJoin
    /\ UNCHANGED <<joined, keys, nputs, fp, reply, calc>>
    /\ UNCHANGED rpcvars

\* node n, started with the port of b, runs init_finger_table as far as its
\* loop
JoinLink(n, b, limit) ==
    /\ n \notin joined /\ b \in joined /\ ~hung
    /\ Cardinality(joined) < limit
    /\ fp.pc = "idle" /\ reply.op # "query"
    /\ RefsLive /\ handler.pc = "idle"
    /\ \A t \in Threads : threads[t].pc = "idle"
    /\ joining.pc = "idle"
    /\ Linked(init_link(Started(n), n, b), n, b,
              find_successor(Started(n), b, Started(n).ft[n][1].start).node)

\* the loop of init_finger_table has run and init_finger_table has returned
FingersSet(net) ==
    /\ finger_table' = net.ft
    /\ predecessor' = net.pred
    /\ rpc_count' = rpc_count + net.rpcs
    /\ hung' = ~net.ok
    /\ joining' = [joining EXCEPT !.pc = "update_others"]
    /\ UNCHANGED <<joined, keys, nputs, fp, reply, calc>>
    /\ UNCHANGED rpcvars

JoinFingers ==
    /\ joining.pc = "init_fingers" /\ ~hung
    /\ FingersSet(init_fingers_from(Net, joining.n, joining.node_p, 1))

\* the calls of a join's log that were sent to node n, and the fingers of n
\* that were read while None
Reaching(log, n) ==
    SelectSeq(log, LAMBDA e : (e[1] = "rpc" /\ e[3] = n) \/ (e[1] = "unset" /\ e[2] = n))

\* join() of node a has run from start to end, or as far as the call that
\* failed, while the join of joining.n stood where it stands: a call that
\* reached a finger that is None has ended a's process in exit()
BesideJoined(net, a) ==
    /\ finger_table' = net.ft
    /\ predecessor' = net.pred
    /\ rpc_count' = net.rpcs
    /\ hung' = (~net.ok \/ net.lost)
    /\ joined' = IF net.ok /\ ~net.lost THEN joined \cup {a} ELSE joined
    /\ joining' = IF joining.pc = "init_fingers"
                  THEN [joining EXCEPT !.reached = Reaching(net.log, joining.n)]
                  ELSE joining
    /\ UNCHANGED <<keys, nputs, fp, reply, calc>>
    /\ UNCHANGED rpcvars

\* `python chord_node.py <port of b>` for node a while another node is in its
\* join
JoinBeside(a, b, limit) ==
    /\ joining.pc \in {"init_fingers", "update_others"}
    /\ a \notin joined /\ a # joining.n /\ b \in joined /\ ~hung
    /\ Cardinality(joined) + 1 < limit
    /\ down = {} /\ handler.pc = "idle"
    /\ BesideJoined(join_via(Started(a), a, b), a)

\* ---- handler threads side by side ------------------------------------------
\* start_listening starts a thread for every connection it accepts and no
\* lock is taken anywhere: handlers of one node run statement by statement in
\* any order. Thread t has read the request ('update_finger_table', s, i)
\* sent to node `at`; each of the threads serves one connection.
UftAccept(t, at, s, i) ==
    /\ at \in joined /\ at \notin down /\ ~hung
    /\ fp.pc = "idle" /\ reply = NoReply /\ handler.pc = "idle"
    /\ threads[t].pc = "idle"
    /\ nputs < Cardinality(Threads)
    /\ threads' = [threads EXCEPT ![t] = [pc |-> "guard", at |-> at, s |-> s, i |-> i]]
    /\ nputs' = nputs + 1
    /\ UNCHANGED <<joined, finger_table, predecessor, keys, rpc_count, hung, fp, reply,
                   down, handler>>
    /\ UNCHANGED stepvars

\* update_finger_table, the condition of the `if`: finger i is read
UftGuard(t) ==
    /\ threads[t].pc = "guard"
    /\ LET at == threads[t].at
           i  == threads[t].i
       IN  threads' = [threads EXCEPT ![t].pc =
               IF /\ finger_table[at][i].start # finger_table[at][i].successor
                  /\ Contains(ModRange(finger_table[at][i].start,
                                       finger_table[at][i].successor, NODES),
                              threads[t].s)
               THEN "write" ELSE "respond"]
    /\ UNCHANGED <<joined, finger_table, predecessor, keys, rpc_count, hung, fp, reply,
                   nputs, down, handler>>
    /\ UNCHANGED stepvars

\* update_finger_table, the body of the `if`: finger i is assigned, the
\* predecessor is read and the update is passed on to it
UftWrite(t) ==
    /\ threads[t].pc = "write"
    /\ LET at   == threads[t].at
           net1 == SetFinger(Net, at, threads[t].i, threads[t].s)
           p    == net1.pred[at]
           net2 == IF Unreachable(net1, at, p) THEN [net1 EXCEPT !.lost = TRUE]
                   ELSE update_finger_table(net1, p, threads[t].s, threads[t].i, HopLimit)
       IN  /\ finger_table' = net2.ft
           /\ predecessor' = net2.pred
           /\ threads' = [threads EXCEPT ![t].pc = IF net2.lost THEN "exit" ELSE "respond"]
    /\ UNCHANGED <<joined, keys, rpc_count, hung, fp, reply, nputs, down, handler>>
    /\ UNCHANGED stepvars

\* handle_rpc sends the result (None) and the thread ends, or the thread has
\* ended in exit()
UftDone(t) ==
    /\ threads[t].pc \in {"respond", "exit"}
    /\ threads' = [threads EXCEPT ![t] = NoThread]
    /\ UNCHANGED <<joined, finger_table, predecessor, keys, rpc_count, hung, fp, reply,
                   nputs, down, handler>>
    /\ UNCHANGED stepvars

\* nodes are started one after the other, at most `limit` of them
Join(limit) == \/ JoinFirst
               \/ \E n \in Ids, b \in Ids : JoinVia(n, b, limit)

Find == \/ \E n \in Ids, id \in Ids : FindStart(n, id)
        \/ FindHop
        \/ FindReturn
        \/ FindClose

KeyOp(limit) ==
         \/ \E x \in Ids, row \in Rows : Populate(x, row, limit)
         \/ \E y \in Ids, p \in Players, yr \in Years : Query(y, p, yr)
         \/ QueryClose

Next == Join(MaxNodes) \/ Find

NextWide == Join(WideNodes) \/ Find

NextKV == Join(KVNodes) \/ KeyOp(MaxPuts)

NextKVWide == Join(WideNodes) \/ KeyOp(MaxPuts)

NextKVTwice == Join(MaxNodes) \/ KeyOp(TwicePuts)

\* requests of every kind, one at a time, in a ring of at most KVNodes nodes
NextRPC == \/ Join(KVNodes)
           \/ \E n \in Ids, req \in Requests : Request(n, req)
           \/ HandlerClose

\* a ring of at most KVNodes nodes is built, a node may be stopped, and one
\* routed request is followed
NextFail == \/ Join(KVNodes)
            \/ \E n \in Ids : Crash(n)
            \/ \E n \in Ids, req \in Routed : Request(n, req)

\* a ring of at most KVNodes nodes is built and lookups are followed hop by hop
NextFind == Join(KVNodes) \/ Find

\* a ring of at most KVNodes nodes is built and one request with its
\* arguments is served
NextServe == \/ Join(KVNodes)
             \/ \E n \in Ids, req \in Complete : Request(n, req)

\* a ring of at most KVNodes nodes and update_finger_table requests served by
\* threads that run side by side
NextThreads == \/ Join(KVNodes)
               \/ \E t \in Threads, at \in Ids, s \in Ids, i \in 1 .. M : UftAccept(t, at, s, i)
               \/ \E t \in Threads : UftGuard(t) \/ UftWrite(t) \/ UftDone(t)

\* nodes are started one after the other, at most MaxNodes of them, and each
\* join is followed call by call
NextJoinSteps == \/ JoinFirst
                 \/ \E n \in Ids, b \in Ids : JoinInit(n, b, MaxNodes)
                 \/ JoinUpdateOthers

\* the same with at most WideNodes nodes
NextJoinStepsWide == \/ JoinFirst
                     \/ \E n \in Ids, b \in Ids : JoinInit(n, b, WideNodes)
                     \/ JoinUpdateOthers

\* at most MaxNodes nodes are started; while one of them is in its join,
\* followed in three steps, others join
NextTwoJoins == \/ JoinFirst
                \/ \E n \in Ids, b \in Ids : JoinLink(n, b, MaxNodes)
                \/ JoinFingers
                \/ JoinUpdateOthers
                \/ \E a \in Ids, b \in Ids : JoinBeside(a, b, MaxNodes)

\* one ModRange or FingerEntry is built, tested and iterated
NextPure == RangeNew \/ IterNext \/ FingerNew

\* joins one at a time and lookups, at most MaxNodes nodes
Spec == Init /\ [][Next]_vars

\* the same with at most WideNodes nodes
SpecWide == Init /\ [][NextWide]_vars

\* joins one at a time, populate and query, at most KVNodes nodes
SpecKV == Init /\ [][NextKV]_vars

\* the same with at most WideNodes nodes
SpecKVWide == Init /\ [][NextKVWide]_vars

SpecRPC == Init /\ [][NextRPC]_vars

SpecFail == Init /\ [][NextFail]_vars

\* joins one at a time, populate up to TwicePuts times and query, at most
\* MaxNodes nodes
SpecKVTwice == Init /\ [][NextKVTwice]_vars

SpecThreads == Init /\ [][NextThreads]_vars

SpecServe == Init /\ [][NextServe]_vars

SpecFind == Init /\ [][NextFind]_vars

SpecJoinSteps == Init /\ [][NextJoinSteps]_vars

SpecJoinStepsWide == Init /\ [][NextJoinStepsWide]_vars

SpecTwoJoins == Init /\ [][NextTwoJoins]_vars

\* ModRange and FingerEntry objects for every argument within the bounds
SpecPure == InitPure /\ [][NextPure]_vars

\* ---- the ring as it should be -----------------------------------------------
\* clockwise distance from a to b
Dist(a, b) == (b - a) % NODES

\* id lies in the ring interval (a, b]; (a, a] is the whole ring
InOpenClosed(id, a, b) == a = b \/ (Dist(a, id) >= 1 /\ Dist(a, id) <= Dist(a, b))

\* x lies in the ring interval (a, b), both ends excluded; (a, a) is all but a
Between(x, a, b) == Dist(a, x) >= 1 /\ (a = b \/ Dist(a, x) < Dist(a, b))

\* the first live node at or after position x
FirstAtOrAfter(x) ==
    CHOOSE n \in joined : \A m \in joined : Dist(x, n) <= Dist(x, m)

\* the next live node clockwise from n (n itself when it is alone)
NextLive(n) == FirstAtOrAfter((n + 1) % NODES)

\* the previous live node counter-clockwise from n (n itself when it is alone)
PrevLive(n) ==
    CHOOSE p \in joined : \A m \in joined : Dist(p, n - 1) <= Dist(m, n - 1)

\* every predecessor and every finger successor is exactly right
Exact ==
    \A n \in joined :
        /\ predecessor[n] = PrevLive(n)
        /\ \A i \in 1 .. M :
              finger_table[n][i].successor = FirstAtOrAfter(finger_table[n][i].start)

\* ---- claims -------------------------------------------------------------------

\* C1: in a ring whose predecessors and finger successors are all exact,
\* find_successor(id) called at any node returns the live node n with id in
\* (previous live node of n, n].
C1_RingOwnership ==
    (fp.pc = "done" /\ Exact) =>
        /\ fp.result \in joined
        /\ InOpenClosed(fp.id, PrevLive(fp.result), fp.result)

\* C2: a query for the composite key of the row just populated, sent to any
\* node with no join in between, returns that row.
C2_RoundTrip ==
    [][(/\ reply.op = "populate"
        /\ reply'.op = "query"
        /\ reply'.player_id = reply.row[1]
        /\ reply'.year = reply.row[4])
       => reply'.result.row = reply.row]_vars

\* C3: after any sequence of joins made one at a time, fingers[1].successor
\* of every live node is the next live node clockwise.
C3_ImmediateSuccessor ==
    \A n \in joined : finger_table[n][1].successor = NextLive(n)

\* C4: after any sequence of joins made one at a time, the predecessor of
\* every live node is the previous live node, so the intervals
\* (predecessor, self] of the live nodes are disjoint and cover the ring.
C4_ExclusiveOwnership ==
    /\ \A n \in joined : predecessor[n] = PrevLive(n)
    /\ joined # {} =>
          \A id \in Ids :
              Cardinality({n \in joined : InOpenClosed(id, predecessor[n], n)}) = 1

\* C5: a join into a ring whose tables were exact leaves every finger of
\* every node, the new one included, exact.
C5_JoinCorrectsRing ==
    [][(joined # {} /\ Exact /\ joined' # joined) => Exact']_vars

\* C6: once a second node has joined a one-node ring, each of the two nodes
\* is the successor and the predecessor of the other.
C6_TwoNodeJoin ==
    Cardinality(joined) = 2 =>
        \A a \in joined, b \in joined :
            a # b => finger_table[a][1].successor = b /\ predecessor[b] = a

C6_Witness ==
    /\ Cardinality(joined) = 2
    /\ rpc_count > 0

\* C7: after the first node of a ring has joined, all M finger successors
\* and the predecessor are the node itself and the join sent no RPC to
\* another node.
C7_SingleNodeBootstrap ==
    Cardinality(joined) = 1 =>
        \A n \in joined :
            /\ predecessor[n] = n
            /\ \A i \in 1 .. M : finger_table[n][i].successor = n
            /\ rpc_count = 0

C7_Witness ==
    /\ Cardinality(joined) = 1
    /\ fp.pc = "idle"

\* C8: the node p that find_predecessor(id) returns has id in
\* (p, p's own fingers[1].successor].
C8_Postcondition ==
    fp.pc = "done" =>
        InOpenClosed(fp.id, fp.node_p, finger_table[fp.node_p][1].successor)

\* C9: find_predecessor is never cut off, and every hop of it goes to a
\* node strictly between the node asked and id: closer to id than the node
\* asked, never that node again, never at or past id.
C9_HopsApproach ==
    fp.pc = "loop" =>
        /\ fp.s.hops < HopLimit
        /\ fp.s.hops > 0 => Between(fp.s.node_p_number, fp.asked, fp.id)

FromNode(n, x) == IF x = n THEN NODES ELSE Dist(n, x)

SuccessorsExact == \A n \in joined : finger_table[n][1].successor = NextLive(n)

FingersNotPast ==
    \A n \in joined : \A i \in 2 .. M :
        /\ finger_table[n][i].successor \in joined
        /\ FromNode(n, finger_table[n][i].successor)
              <= FromNode(n, FirstAtOrAfter(finger_table[n][i].start))

C11_StaleFingers ==
    (fp.pc = "done" /\ SuccessorsExact /\ FingersNotPast) =>
        fp.result = FirstAtOrAfter(fp.id)

\* C12: a query for a key that no node holds (the key being the hash of the
\* two fields concatenated, as save_data derives it), sent to any node, is
\* answered 'Data is not available.', which is no row and not 'Query failed!',
\* without an error and without a change to any key store or routing state.
Absent(player_id, year) ==
    \A n \in Ids : \A e \in keys[n] : e[1] # sha1_hash(player_id \o year)

C12_AbsentKey ==
    [][(/\ reply.op # "query"
        /\ reply'.op = "query"
        /\ Absent(reply'.player_id, reply'.year))
       => /\ reply'.result.text = "Data is not available."
          /\ reply'.result.text # "Query failed!"
          /\ reply'.result.row \notin Rows
          /\ ~reply'.result.raised
          /\ UNCHANGED <<keys, finger_table, predecessor>>]_vars

C12_Witness ==
    /\ reply.op = "query"
    /\ Absent(reply.player_id, reply.year)
    /\ reply.result.text = "Data is not available."
    /\ \E n \in joined : keys[n] # {}
    /\ Cardinality(joined) >= 2

\* a request as the RPC table gives it: a known method with each required
\* argument present and of the listed type
WellFormed(req) ==
    CASE req.method = "successor" -> TRUE
      [] req.method \in {"find_predecessor", "find_successor",
                         "closest_preceding_finger", "get_key"} -> req.arg1.t = "int"
      [] req.method = "update_finger_table" -> req.arg1.t = "ref" /\ req.arg2.t = "int"
      [] req.method = "update_your_predecessor" -> req.arg1.t = "ref"
      [] req.method = "populate" -> req.arg1.t = "row"
      [] req.method = "put_key" -> req.arg1.t = "int" /\ req.arg2.t = "row"
      [] req.method = "query" -> req.arg1.t = "str" /\ req.arg2.t = "str"
      [] OTHER -> FALSE

\* the step in which a handler thread takes a request
Handled == handler.pc = "idle" /\ handler'.pc # "idle"

\* C13: a request with its required arguments, delivered to a live node while
\* every peer is reachable, is dispatched once and answered with one response,
\* after which the handler ends
C13_OneResponse ==
    [][(Handled /\ WellFormed(handler'.req) /\ down = {} /\ RefsLive)
          => /\ handler'.pc = "ended"
             /\ handler'.dispatched = 1
             /\ handler'.responses = 1]_vars

\* the same for every method but find_predecessor
C13_OthersAnswer ==
    [][(Handled /\ WellFormed(handler'.req) /\ down = {} /\ RefsLive
          /\ handler'.req.method # "find_predecessor")
          => /\ handler'.pc = "ended"
             /\ handler'.dispatched = 1
             /\ handler'.responses = 1]_vars

\* a request for one of the four routing methods that check their arguments,
\* with a required argument left out
MissingArg(req) ==
    \/ req.method \in {"update_your_predecessor", "find_successor",
                       "closest_preceding_finger"} /\ req.arg1.t = "none"
    \/ req.method = "update_finger_table" /\ (req.arg1.t = "none" \/ req.arg2.t = "none")

\* C14: a request for update_finger_table, update_your_predecessor,
\* find_successor or closest_preceding_finger that lacks a required argument
\* is answered with an error value; the handler does not end without a response
C14_MissingArgument ==
    [][(Handled /\ MissingArg(handler'.req))
          => /\ handler'.pc = "ended"
             /\ handler'.responses = 1
             /\ handler'.value.t = "str"]_vars

\* a request whose method is unknown or whose arguments are missing or not of
\* the listed type
BadRequest(req) == ~WellFormed(req)

\* C15: a request with a missing or malformed argument, or for an unknown
\* method, leaves the receiving node's predecessor, its finger successors and
\* its key store as they were
C15_BadRequestFrame ==
    [][(Handled /\ BadRequest(handler'.req))
          => UNCHANGED <<predecessor, finger_table, keys>>]_vars

\* the same for every method but put_key
C15_OthersFrame ==
    [][(Handled /\ BadRequest(handler'.req) /\ handler'.req.method # "put_key")
          => UNCHANGED <<predecessor, finger_table, keys>>]_vars

\* event i of the handler's log is a call to a peer that does not answer
FailedCall(i) ==
    /\ handler.log[i][1] = "rpc"
    /\ handler.log[i][3] \in down \cup (Ids \ joined)

\* C16: once a call to a peer has failed, the operation that issued it makes
\* no further call and no further assignment, returns no result and sends no
\* response to its own caller
C16_TransportFatal ==
    handler.pc # "idle" =>
        \A i \in 1 .. Len(handler.log) :
            FailedCall(i) => /\ i = Len(handler.log)
                             /\ handler.responses = 0
                             /\ handler.value = NoneVal

\* an update_finger_table that wrote a finger and then failed to reach its
\* predecessor, and a lookup that failed on its first hop
C16_Witness ==
    /\ handler.pc = "ended" /\ down # {}
    /\ Len(handler.log) >= 2
    /\ handler.log[1][1] = "set"
    /\ FailedCall(Len(handler.log))
    /\ handler.responses = 0

C16_WitnessLookup ==
    /\ handler.pc = "ended" /\ down # {}
    /\ handler.req.method \in {"find_successor", "populate", "query"}
    /\ Len(handler.log) >= 1
    /\ FailedCall(Len(handler.log))

\* thread t has evaluated the guard of update_finger_table and has yet to
\* assign the finger it read
BetweenReadAndWrite(t) == threads[t].pc = "write"

\* C17: mutations of one node's state are serialized: no two handler threads
\* of a node are both between reading and writing the same finger
C17_Serialized ==
    \A t1 \in Threads, t2 \in Threads :
        (/\ t1 # t2
         /\ BetweenReadAndWrite(t1) /\ BetweenReadAndWrite(t2)
         /\ threads[t1].at = threads[t2].at) => threads[t1].i # threads[t2].i

\* the live node that owns the key of a stored entry
Owner(e) == FirstAtOrAfter(e[1] % NODES)

C19_KeyTransfer ==
    [][\A n \in joined' \ joined :
          \A e \in keys[finger_table'[n][1].successor] :
              (Owner(e))' = n => e \in keys'[n]]_vars

\* the key a row is stored under
RowKey(row) == sha1_hash(row[1] \o row[4])

\* C20: a populate of a row whose key was stored by the populate before it,
\* in the same ring, replaces the payload: a query for the key at any node
\* returns the later row, the owner holds one entry for the key and no node
\* holds the old payload
C20_PutReplaces ==
    [][(/\ reply.op = "populate" /\ reply.sent
        /\ reply'.op = "populate" /\ reply'.sent
        /\ nputs' = nputs + 1
        /\ RowKey(reply'.row) = RowKey(reply.row))
       => /\ \A y \in joined :
                query_data(Net, keys', y, reply'.row[1], reply'.row[4]).row = reply'.row
          /\ Cardinality({e \in keys'[FirstAtOrAfter(RowKey(reply'.row) % NODES)] :
                             e[1] = RowKey(reply'.row)}) = 1
          /\ \A a \in Ids : \A e \in keys'[a] :
                e[1] = RowKey(reply'.row) => e[2] = reply'.row]_vars

\* C21: a node that has joined has a predecessor, and that predecessor is
\* the node itself exactly when the ring has one node
C21_PredecessorDefined ==
    \A n \in joined :
        /\ predecessor[n] # None
        /\ predecessor[n] \in joined
        /\ predecessor[n] = n <=> Cardinality(joined) = 1

\* three nodes have joined one after the other
C21_Witness ==
    /\ Cardinality(joined) = MaxNodes /\ ~hung
    /\ \A n \in joined : predecessor[n] \in joined \ {n}

\* id lies in the ring interval [a, b) of the ring of size n
InRing(id, a, b, n) == (id - a) % n < (b - a) % n

C24_Wraparound ==
    (calc.op = "range" /\ calc.mr.start # calc.mr.stop) =>
        /\ calc.mr.start = calc.start % calc.divisor
        /\ calc.mr.stop = calc.stop % calc.divisor
        /\ calc.contains <=> InRing(calc.id, calc.start, calc.stop, calc.divisor)
        /\ calc.mr.start > calc.mr.stop =>
              (calc.contains <=> (calc.id >= calc.mr.start \/ calc.id < calc.mr.stop))

\* a wrapping interval built from arguments outside [0, N), with an id past 0
C24_Witness ==
    /\ calc.op = "range" /\ calc.mr.start > calc.mr.stop /\ calc.mr.stop > 0
    /\ calc.start < 0 /\ calc.stop >= calc.divisor
    /\ calc.id < calc.mr.stop /\ calc.contains

\* the ids of ModRange mr in ring order from its start
RingOrder(mr) ==
    [t \in 1 .. (IF mr.start = mr.stop THEN mr.divisor
                 ELSE (mr.stop - mr.start) % mr.divisor)
        |-> (mr.start + t - 1) % mr.divisor]

\* C25: iterating a ModRange yields the ids it contains, each once, in ring
\* order from start, and len() is the number of ids yielded
C25_Iteration ==
    (calc.op = "range" /\ calc.pc = "stopped") =>
        /\ calc.yielded = RingOrder(calc.mr)
        /\ Len(calc.yielded) = calc.len
        /\ \A x \in 0 .. calc.divisor - 1 :
              Contains(calc.mr, x) <=> \E t \in 1 .. Len(calc.yielded) : calc.yielded[t] = x
        /\ \A t, u \in 1 .. Len(calc.yielded) : calc.yielded[t] = calc.yielded[u] => t = u

\* an iteration that has wrapped through 0 and ended
C25_Witness ==
    /\ calc.op = "range" /\ calc.pc = "stopped"
    /\ calc.i = 1 /\ Len(calc.yielded) >= 3
    /\ calc.yielded[Len(calc.yielded)] < calc.yielded[1]

\* C23: once a node's table is built, no step changes any start or interval
\* end of it; an update_finger_table(s, i) request changes nothing but
\* fingers[i].successor of the nodes it reaches
C23_OnlySuccessorsMutate ==
    [][/\ \A n \in Ids : finger_table[n] # <<>> =>
            /\ Len(finger_table'[n]) = M
            /\ \A k \in 1 .. M :
                  /\ finger_table'[n][k].start = finger_table[n][k].start
                  /\ finger_table'[n][k].next_start = finger_table[n][k].next_start
                  /\ finger_table'[n][k].start = (n + 2 ^ (k - 1)) % NODES
       /\ (Handled /\ handler'.req.method = "update_finger_table"
             /\ handler'.req.arg2.t = "int")
            => /\ UNCHANGED <<predecessor, keys>>
               /\ \A n \in Ids : finger_table[n] # <<>> =>
                     \A k \in 1 .. M :
                        k # handler'.req.arg2.v =>
                            finger_table'[n][k] = finger_table[n][k]]_vars

\* an update_finger_table request has written the same finger on two nodes
C23_Witness ==
    /\ handler.pc = "ended" /\ handler.req.method = "update_finger_table"
    /\ \E a, b \in 1 .. Len(handler.log) :
          /\ handler.log[a][1] = "set" /\ handler.log[b][1] = "set"
          /\ handler.log[a][2] # handler.log[b][2]
    /\ \A n \in joined : \A k \in 1 .. M :
          finger_table[n][k].start = (n + 2 ^ (k - 1)) % NODES

\* the finger indexes of node n whose successor lies strictly between n and id
Preceding(n, id) ==
    {i \in 1 .. M : Between(finger_table[n][i].successor, n, id)}

\* what closest_preceding_finger(id) at node n is to return
ClosestPreceding(n, id) ==
    IF Preceding(n, id) = {} THEN n
    ELSE finger_table[n][CHOOSE i \in Preceding(n, id) :
                            \A j \in Preceding(n, id) : j <= i].successor

\* C26: closest_preceding_finger(id) at node n returns the successor of the
\* highest finger whose successor lies strictly between n and id, and n when
\* there is none; it never returns a node at or past id
C26_ClosestPrecedingFinger ==
    (/\ handler.pc = "ended"
     /\ handler.req.method = "closest_preceding_finger"
     /\ handler.req.arg1.t = "int")
    => /\ handler.value = RefVal(ClosestPreceding(handler.at, handler.req.arg1.v))
       /\ handler.value.v # handler.at =>
             Between(handler.value.v, handler.at, handler.req.arg1.v)

\* the same for every id but the one right after the node
C26_ExceptNextId ==
    (/\ handler.pc = "ended"
     /\ handler.req.method = "closest_preceding_finger"
     /\ handler.req.arg1.t = "int"
     /\ handler.req.arg1.v # (handler.at + 1) % NODES)
    => /\ handler.value = RefVal(ClosestPreceding(handler.at, handler.req.arg1.v))
       /\ handler.value.v # handler.at =>
             Between(handler.value.v, handler.at, handler.req.arg1.v)

\* C27: whenever a finger successor of a joined node changes, the new
\* successor lies in [start, old successor): its clockwise distance from the
\* finger's start is smaller than before
C27_MovesCloser ==
    [][\A n \in joined : \A i \in 1 .. M :
          finger_table'[n][i].successor # finger_table[n][i].successor =>
              /\ InRing(finger_table'[n][i].successor, finger_table[n][i].start,
                        finger_table[n][i].successor, NODES)
              /\ Dist(finger_table[n][i].start, finger_table'[n][i].successor)
                    < Dist(finger_table[n][i].start, finger_table[n][i].successor)]_vars

\* the positions of the handler's log at which a finger was assigned
Sets == {k \in 1 .. Len(handler.log) : handler.log[k][1] = "set"}

\* C28: a chain of update_finger_table(s, i) calls ends: the handler returns,
\* no node assigns its finger more than once in the chain, every assignment
\* left s in finger i, and a call that was passed on and was not the last one
\* met a node that changed (the chain stops at the first node that does not)
C28_ChainTerminates ==
    (handler.pc # "idle" /\ handler.req.method = "update_finger_table") =>
        /\ handler.pc = "ended"
        /\ \A j, k \in Sets : j # k => handler.log[j][2] # handler.log[k][2]
        /\ Cardinality(Sets) <= Cardinality(joined)
        /\ \A k \in Sets :
              /\ handler.log[k][3] = handler.req.arg2.v
              /\ finger_table[handler.log[k][2]][handler.req.arg2.v].successor
                    = handler.req.arg1.v
        /\ \A k \in 1 .. Len(handler.log) - 1 :
              handler.log[k][1] = "rpc" =>
                  handler.log[k + 1] = <<"set", handler.log[k][3], handler.req.arg2.v>>

\* a chain in which two nodes changed and the call came back to the node it
\* started at, which did not change again
C28_Witness ==
    /\ handler.pc = "ended" /\ handler.req.method = "update_finger_table"
    /\ Cardinality(Sets) >= 2
    /\ handler.log[Len(handler.log)] = <<"rpc", handler.log[Len(handler.log)][2], handler.at>>

\* a chain at a node that is its own predecessor: the call is made locally
\* and changes nothing the second time
C28_WitnessSelf ==
    /\ handler.pc = "ended" /\ handler.req.method = "update_finger_table"
    /\ predecessor[handler.at] = handler.at
    /\ handler.log = << <<"set", handler.at, handler.req.arg2.v>> >>

\* the ring a call left behind is the ring ft, pr, and the call assigned no
\* finger and sent nothing
Unmoved(net, ft, pr) == net.ft = ft /\ net.pred = pr /\ net.log = <<>>

\* finger i of node `at` already holds s, or is exact
AlreadyThere(at, s, i) ==
    \/ finger_table[at][i].successor = s
    \/ finger_table[at][i].successor = finger_table[at][i].start

\* C29: update_finger_table(s, i) at a node whose finger i already holds s,
\* or whose finger i is exact, changes nothing and sends nothing to the
\* predecessor; and the same update applied again to the state any
\* update_finger_table request left behind changes nothing
C29_NoOpAndIdempotent ==
    [][(Handled /\ handler'.req.method = "update_finger_table" /\ handler'.req \in Routed) =>
          /\ AlreadyThere(handler'.at, handler'.req.arg1.v, handler'.req.arg2.v) =>
                /\ UNCHANGED <<finger_table, predecessor, keys>>
                /\ handler'.log = <<>>
                /\ handler'.responses = 1
          /\ Unmoved(update_finger_table(Net', handler'.at, handler'.req.arg1.v,
                                         handler'.req.arg2.v, HopLimit),
                     finger_table', predecessor')]_vars

\* a request for a finger that already holds s and is not exact was served
C29_Witness ==
    /\ handler.pc = "ended" /\ handler.req.method = "update_finger_table"
    /\ handler.log = <<>> /\ handler.responses = 1
    /\ finger_table[handler.at][handler.req.arg2.v].successor = handler.req.arg1.v
    /\ finger_table[handler.at][handler.req.arg2.v].start # handler.req.arg1.v

\* a request for an exact finger with another s was served
C29_WitnessExact ==
    /\ handler.pc = "ended" /\ handler.req.method = "update_finger_table"
    /\ handler.log = <<>> /\ handler.responses = 1
    /\ finger_table[handler.at][handler.req.arg2.v].successor
          = finger_table[handler.at][handler.req.arg2.v].start
    /\ finger_table[handler.at][handler.req.arg2.v].start # handler.req.arg1.v

\* a request changed a finger, so that the second application had a changed
\* state to act on
C29_WitnessTwice ==
    /\ handler.pc = "ended" /\ handler.req.method = "update_finger_table"
    /\ Cardinality(Sets) >= 1 /\ handler.log[1][2] = handler.at

\* C30: when init_finger_table of a joining node n has returned, with s the
\* node the bootstrap's find_successor gave for n's first finger: n's first
\* finger is s, n's predecessor is the predecessor s had before the join, and
\* the predecessor of s is n
C30_LinkingOrder ==
    joining.pc = "update_others" =>
        /\ finger_table[joining.n][1].successor = joining.s
        /\ predecessor[joining.n] = joining.s_predecessor
        /\ predecessor[joining.s] = joining.n

\* init_finger_table has returned in a ring of two nodes or more, where the
\* successor's old predecessor is neither the successor nor the joining node
C30_Witness ==
    /\ joining.pc = "update_others"
    /\ Cardinality(joined) >= 2
    /\ joining.s_predecessor # joining.s
    /\ predecessor[joining.n] = joining.s_predecessor
    /\ predecessor[joining.s] = joining.n

\* finger i + 1 of the joining node was taken from finger i without a call
Reused(n, i) ==
    Contains(ModRange(n, finger_table[n][i].successor, NODES), finger_table[n][i + 1].start)

\* C31: when init_finger_table has returned, every finger that was taken from
\* the finger before it holds the node the bootstrap's find_successor gives
\* for the finger's start
C31_ReuseSound ==
    joining.pc = "update_others" =>
        \A i \in 1 .. M - 1 :
            Reused(joining.n, i) =>
                finger_table[joining.n][i + 1].successor
                    = find_successor(Net, joining.node_p, finger_table[joining.n][i + 1].start).node

\* C32: the predecessor of a node that has joined changes only when the node
\* serves update_your_predecessor, sent by a client or by the node that is
\* joining, and the request sets it to its argument whatever it held; every
\* other request leaves every predecessor as it was
C32_PredecessorWriters ==
    [][\A n \in joined :
          /\ predecessor'[n] # predecessor[n] =>
                \/ /\ Handled /\ handler'.at = n
                   /\ handler'.req.method = "update_your_predecessor"
                \/ /\ ~Handled
                   /\ finger_table[predecessor'[n]] = <<>>
                   /\ finger_table'[predecessor'[n]] # <<>>
          /\ (/\ Handled /\ handler'.at = n
              /\ handler'.req.method = "update_your_predecessor") =>
                predecessor'[n] = handler'.req.arg1.v]_vars

\* update_your_predecessor was served with a NodeRef of no member of the ring
\* and the predecessor is that NodeRef
C32_Witness ==
    /\ handler.pc = "ended" /\ handler.req.method = "update_your_predecessor"
    /\ Cardinality(joined) = KVNodes
    /\ handler.req.arg1.v \notin joined
    /\ predecessor[handler.at] = handler.req.arg1.v

\* the node find_successor, asked at node x before the request, gives for the
\* ring slot of the row's key
Responsible(x, row) ==
    find_successor(Net, x, sha1_hash(row[1] \o row[4]) % (2 ^ M)).node

\* C33: a populate(row) that node X answers has stored the row under its key
\* on the node find_successor at X gives for the key's slot, has left every
\* other key store, every finger and every predecessor as it was, and its
\* answer names that node
C33_PopulateOneOwner ==
    [][(/\ Handled /\ handler'.req.method = "populate" /\ handler'.req \in Complete
        /\ handler'.responses = 1) =>
          /\ keys' = put_key(keys, Responsible(handler'.at, handler'.req.arg1.v),
                             sha1_hash(handler'.req.arg1.v[1] \o handler'.req.arg1.v[4]),
                             handler'.req.arg1.v)
          /\ \A m \in Ids :
                m # Responsible(handler'.at, handler'.req.arg1.v) => keys'[m] = keys[m]
          /\ UNCHANGED <<finger_table, predecessor>>
          /\ handler'.value = SavedVal(Responsible(handler'.at, handler'.req.arg1.v))]_vars

\* a populate was answered by a node that is not the one that stored the row
C33_Witness ==
    /\ handler.pc = "ended" /\ handler.req.method = "populate"
    /\ handler.responses = 1
    /\ handler.value.t = "saved" /\ handler.value.v # handler.at
    /\ \E e \in keys[handler.value.v] : e[2] = handler.req.arg1.v
    /\ keys[handler.at] = {}

\* C34: a populate of a row whose key differs from the key of the row
\* populated before it, in the same ring, while both keys fall into the same
\* ring slot, leaves both rows as entries of one node, and a query for either
\* key at any node returns that key's row
C34_CollidingSlots ==
    [][(/\ reply.op = "populate" /\ reply.sent
        /\ reply'.op = "populate" /\ reply'.sent
        /\ nputs' = nputs + 1
        /\ RowKey(reply'.row) # RowKey(reply.row)
        /\ RowKey(reply'.row) % NODES = RowKey(reply.row) % NODES)
       => /\ \A y \in joined :
                /\ query_data(Net, keys', y, reply'.row[1], reply'.row[4]).row = reply'.row
                /\ query_data(Net, keys', y, reply.row[1], reply.row[4]).row = reply.row
          /\ \E o \in joined :
                {<<RowKey(reply.row), reply.row>>, <<RowKey(reply'.row), reply'.row>>}
                    \subseteq keys'[o]]_vars

\* the methods that look something up
Lookups == {"successor", "find_successor", "find_predecessor",
            "closest_preceding_finger", "get_key", "query"}

\* C35: a request of a lookup method, whatever its arguments and whichever
\* node serves it, leaves every predecessor, every finger and every key store
\* as they were
C35_LookupsReadOnly ==
    [][(Handled /\ handler'.req.method \in Lookups) =>
          UNCHANGED <<finger_table, predecessor, keys>>]_vars

\* a find_successor that went to another node of a ring of KVNodes nodes, and
\* was answered
C35_Witness ==
    /\ handler.pc = "ended" /\ handler.req.method = "find_successor"
    /\ Cardinality(joined) = KVNodes
    /\ Len(handler.log) >= 1 /\ handler.log[1][1] = "rpc"
    /\ handler.responses = 1
    /\ predecessor[handler.at] # handler.at

\* a query that was answered by a ring of KVNodes nodes
C35_WitnessQuery ==
    /\ handler.pc = "ended" /\ handler.req.method = "query"
    /\ Cardinality(joined) = KVNodes
    /\ handler.responses = 1 /\ handler.value.t = "str"

\* C36: ModRange(a, a, N) contains every id of the ring, for every a; on a
\* ring of one node the loop condition of find_predecessor therefore fails
\* at once for every id, and find_predecessor returns the node itself without
\* a pass through the loop
C36_EqualEndpoints ==
    /\ \A a \in Ids : \A id \in Ids : Contains(ModRange(a, a, NODES), id)
    /\ (Cardinality(joined) = 1 /\ fp.pc = "loop") =>
          fp_exit(fp.s, fp.id) /\ fp.s.hops = 0
    /\ (Cardinality(joined) = 1 /\ fp.pc = "done") =>
          fp.hops = 0 /\ fp.node_p = fp.self /\ fp.result = fp.self

\* the only node of a ring was asked for an id other than its own and the
\* one after it, and has answered
C36_Witness ==
    /\ joined = {FirstNode} /\ fp.pc = "done"
    /\ fp.id \notin {FirstNode, (FirstNode + 1) % NODES}
    /\ fp.hops = 0 /\ fp.node_p = FirstNode

\* the fingers of the empty table of node n whose interval holds id
FingersHolding(n, id) ==
    {k \in 1 .. M : FingerContains(initialize_empty_finger_table(n)[k], id)}

\* C37: the M finger intervals of a node n are pairwise disjoint and cover
\* the ring but for n: every id other than n is in exactly one of them, and
\* n is in none
C37_FingerPartition ==
    calc.op = "finger" =>
        /\ Cardinality(FingersHolding(calc.n, calc.id)) = IF calc.id = calc.n THEN 0 ELSE 1
        /\ calc.contains <=> calc.k \in FingersHolding(calc.n, calc.id)

\* the id just before n, which only the last finger of n holds
C37_Witness ==
    /\ calc.op = "finger" /\ calc.k = M
    /\ calc.id = (calc.n + NODES - 1) % NODES
    /\ calc.contains
    /\ FingersHolding(calc.n, calc.id) = {M}

\* C38: no call is dispatched on a node whose init_finger_table has not yet
\* set all its fingers, and no handler reads a finger that is None
C38_NoUnsetRead ==
    joining.pc = "init_fingers" => joining.reached = <<>>

\* no node has been started
EmptyRing == [ft |-> [n \in Ids |-> <<>>], pred |-> [n \in Ids |-> None], rpcs |-> 0,
              ok |-> TRUE, down |-> {}, lost |-> FALSE, log |-> <<>>]

\* node n is started in the ring net
StartedIn(net, n) == [net EXCEPT !.ft[n] = initialize_empty_finger_table(n)]

\* the ring after the first node, then x through bx, then y through by have
\* joined, each join from start to end
OneAfterTheOther(x, bx, y, by) ==
    join_via(StartedIn(join_via(StartedIn(join_first(StartedIn(EmptyRing, FirstNode),
                                                    FirstNode), x), x, bx), y), y, by)

\* the tables of the ring are those of net
SameTables(net) == finger_table = net.ft /\ predecessor = net.pred

\* C39: when two nodes have joined the ring of the first node and both joins
\* have completed, however their calls were interleaved, the fingers and
\* predecessors of all nodes are those that one of the two joins followed by
\* the other would have left
C39_Serializable ==
    (Cardinality(joined) = 3 /\ joining.pc = "idle" /\ ~hung) =>
        \E x \in joined \ {FirstNode} : \E y \in joined \ {FirstNode, x} :
            \E by \in {FirstNode, x} :
                SameTables(OneAfterTheOther(x, FirstNode, y, by))

\* node n has every finger successor and its predecessor set
AllSet(n) ==
    /\ finger_table[n] # <<>>
    /\ \A i \in 1 .. M : finger_table[n][i].successor # None
    /\ predecessor[n] # None

\* C40: a join through any node of a ring built by completed joins finishes:
\* no lookup and no update chain of init_finger_table or of the rounds of
\* update_others fails to end, init_finger_table returns with every finger
\* and the predecessor of the node set, and so does the join
C40_JoinTerminates ==
    /\ ~hung
    /\ joining.pc = "update_others" => AllSet(joining.n)
    /\ \A n \in joined : AllSet(n)

\* the last of WideNodes nodes has joined, with more calls to other nodes
\* than it has fingers
C40_Witness ==
    /\ Cardinality(joined) = WideNodes /\ joining.pc = "idle" /\ ~hung
    /\ rpc_count > M
    /\ \A n \in joined : AllSet(n)

====
